---- MODULE Spec2Model ----
(***************************************************************************)
(* DeepSeekDecoderLayer.__call__ (src/MaxText/layers/deepseek.py) as a     *)
(* state machine: one action per statement of the method.                  *)
(*                                                                         *)
(* A tensor is a tuple of TensorLen elements over Elem with element-wise   *)
(* addition modulo 2.  A local variable holds a record [val, axes]: the    *)
(* tensor and the logical axes it was last constrained with (<<>> when it  *)
(* is the raw result of a collaborator or of an addition).  The            *)
(* collaborators (RMSNorm, MLA, MlpBlock, MoeBlock) live outside this      *)
(* file: a call returns an arbitrary tensor, and the call is logged in     *)
(* `events` with the arguments it was given.                               *)
(***************************************************************************)
EXTENDS Integers, Sequences, FiniteSets

\* Number of elements of a tensor.
TensorLen == 1

\* Largest value of cfg.mlp_dim, cfg.num_experts_per_tok, cfg.num_shared_experts.
MaxDim == 1

Elem == {0, 1}

Tensor == [1..TensorLen -> Elem]

Dim == 0..MaxDim

\* The axes every with_logical_constraint of the layer names.
ActivationAxes == <<"activation_batch", "activation_norm_length", "activation_embed">>

NoAxes == <<>>

\* A local that has not been assigned yet.
Unbound == [val |-> <<>>, axes |-> NoAxes]

None == "None"

VARIABLES
  pc,                  \* the statement to execute next
  cfg,                 \* self.config
  dense_layer,         \* argument of __call__
  inputs, lnx, attention_lnx, intermediate_inputs, hidden_states,
  mlp_lnx, mlp_shared_lnx, mlp_routed_lnx, layer_output,   \* locals
  intermediate_dim,    \* intermediate_dim given to the MlpBlock constructor
  events,              \* log of collaborator calls, additions, sows, return
  intermediates,       \* the "intermediates" collection written by self.sow
  ret                  \* <<>> until the method returns, then the returned tuple

vars == <<pc, cfg, dense_layer, inputs, lnx, attention_lnx, intermediate_inputs,
          hidden_states, mlp_lnx, mlp_shared_lnx, mlp_routed_lnx, layer_output,
          intermediate_dim, events, intermediates, ret>>

----------------------------------------------------------------------------
\* Framework operations used by the layer.

\* nn.with_logical_constraint(x, axes): the same values, constrained to axes.
WithLogicalConstraint(x, axes) == [val |-> x.val, axes |-> axes]

\* a + b on tensors: element-wise, commutative; the sum carries no constraint.
AddVal(u, v) == [i \in 1..TensorLen |-> (u[i] + v[i]) % 2]

Add(a, b) == [val |-> AddVal(a.val, b.val), axes |-> NoAxes]

\* The raw output of a collaborator.
Raw(t) == [val |-> t, axes |-> NoAxes]

RECURSIVE SumUpTo(_, _)
SumUpTo(t, n) == IF n = 0 THEN 0 ELSE t[n] + SumUpTo(t, n - 1)

\* jnp.mean(x) as the fraction <<numerator, denominator>>.
Mean(x) == <<SumUpTo(x.val, TensorLen), TensorLen>>

\* jnp.std(x), as the fraction under the square root:
\* mean(x^2) - mean(x)^2 = (n * sum(x^2) - sum(x)^2) / n^2.
Std(x) ==
  LET sq == [i \in 1..TensorLen |-> x.val[i] * x.val[i]]
      s  == SumUpTo(x.val, TensorLen)
  IN  <<TensorLen * SumUpTo(sq, TensorLen) - s * s, TensorLen * TensorLen>>

\* jnp.sum(x == 0) / jnp.size(x) as the fraction <<numerator, denominator>>.
FractionZero(x) ==
  LET z == [i \in 1..TensorLen |-> IF x.val[i] = 0 THEN 1 ELSE 0]
  IN  <<SumUpTo(z, TensorLen), TensorLen>>

\* self.sow(collection, name, value)
Sow(col, name, value) == [collection |-> col, name |-> name, value |-> value]

\* A log entry: the statement (at), what it invoked (op), the operands as the
\* statement passed them (args) and the value produced (out).
Event(op, args, out) == [at |-> pc, op |-> op, args |-> args, out |-> out]

----------------------------------------------------------------------------
Init ==
  /\ pc = "constrain_inputs"
  /\ cfg \in [record_internal_nn_metrics : BOOLEAN, scan_layers : BOOLEAN,
              mlp_dim : Dim, num_experts_per_tok : Dim, num_shared_experts : Dim]
  /\ dense_layer \in BOOLEAN
  /\ \E t \in Tensor : inputs = Raw(t)
  /\ lnx = Unbound
  /\ attention_lnx = Unbound
  /\ intermediate_inputs = Unbound
  /\ hidden_states = Unbound
  /\ mlp_lnx = Unbound
  /\ mlp_shared_lnx = Unbound
  /\ mlp_routed_lnx = Unbound
  /\ layer_output = Unbound
  /\ intermediate_dim = -1
  /\ events = <<>>
  /\ intermediates = <<>>
  /\ ret = <<>>

----------------------------------------------------------------------------
\* Mutant of NextPc: lines 105-114 (post-attention norm) moved before line 102.
NextPcNormBeforeResidual(p) ==
  CASE p = "constrain_inputs" -> "pre_norm"
    [] p = "pre_norm" -> "constrain_lnx"
    [] p = "constrain_lnx" -> "attention"
    [] p = "attention" -> "constrain_attention"
    [] p = "constrain_attention" -> "post_norm"
    [] p = "residual_1" -> IF dense_layer THEN "dense_mlp" ELSE "shared_mlp"
    [] p = "post_norm" -> "constrain_hidden"
    [] p = "constrain_hidden" -> "residual_1"
    [] p = "dense_mlp" -> "constrain_dense"
    [] p = "constrain_dense" -> "residual_2"
    [] p = "shared_mlp" -> "constrain_shared"
    [] p = "constrain_shared" -> "moe"
    [] p = "moe" -> "constrain_routed"
    [] p = "constrain_routed" -> "experts_sum"
    [] p = "experts_sum" -> "constrain_sum"
    [] p = "constrain_sum" -> "residual_2"
    [] p = "residual_2" -> "constrain_output"
    [] p = "constrain_output" -> "metrics"
    [] p = "metrics" -> "return"
    [] p = "return" -> "done"

\* lines 57-174: the order of the statements of __call__; the if of line 116
\* chooses the branch after hidden_states is constrained.
NextPc(p) ==
  CASE p = "constrain_inputs" -> "pre_norm"
    [] p = "pre_norm" -> "constrain_lnx"
    [] p = "constrain_lnx" -> "attention"
    [] p = "attention" -> "constrain_attention"
    [] p = "constrain_attention" -> "residual_1"
    [] p = "residual_1" -> "post_norm"
    [] p = "post_norm" -> "constrain_hidden"
    [] p = "constrain_hidden" -> IF dense_layer THEN "dense_mlp" ELSE "shared_mlp"
    [] p = "dense_mlp" -> "constrain_dense"
    [] p = "constrain_dense" -> "residual_2"
    [] p = "shared_mlp" -> "constrain_shared"
    [] p = "constrain_shared" -> "moe"
    [] p = "moe" -> "constrain_routed"
    [] p = "constrain_routed" -> "experts_sum"
    [] p = "experts_sum" -> "constrain_sum"
    [] p = "constrain_sum" -> "residual_2"
    [] p = "residual_2" -> "constrain_output"
    [] p = "constrain_output" -> "metrics"
    [] p = "metrics" -> "return"
    [] p = "return" -> "done"

\* Mutant of AttentionArgs: keys/values taken from another tensor than the query.
AttentionArgsCross(x) == <<x, inputs>>

\* lines 90-92: the (inputs_q, inputs_kv) pair given to the attention layer.
AttentionArgs(x) == <<x, x>>

\* Mutant of Residual1: the residual adds the normalized tensor.
Residual1OfNormalized(inp, attn) == Add(lnx, attn)

\* line 102: inputs + attention_lnx
Residual1(inp, attn) == Add(inp, attn)

\* Mutant of DenseIntermediateDim: the shared experts are left out of the width.
DenseIntermediateDimRoutedOnly(c) == c.mlp_dim * c.num_experts_per_tok

\* line 118: intermediate_dim of the dense MlpBlock
DenseIntermediateDim(c) == c.mlp_dim * (c.num_experts_per_tok + c.num_shared_experts)

\* line 130: intermediate_dim of the shared MlpBlock
SharedIntermediateDim(c) == c.mlp_dim * c.num_shared_experts

\* Mutant of ExpertsSum: the shared experts' output is dropped.
ExpertsSumRoutedOnly(shared, routed) == [val |-> routed.val, axes |-> NoAxes]

\* line 152: mlp_shared_lnx + mlp_routed_lnx
ExpertsSum(shared, routed) == Add(shared, routed)

\* line 155: mlp_lnx + intermediate_inputs
Residual2(mlp, inter) == Add(mlp, inter)

\* Mutant of Metrics: the statistics are taken of mlp_lnx, not of layer_output.
MetricsOfMlp(out) ==
  <<Sow("intermediates", "activation_mean", Mean(mlp_lnx)),
    Sow("intermediates", "activation_stdev", Std(mlp_lnx)),
    Sow("intermediates", "activation_fraction_zero", FractionZero(mlp_lnx))>>

\* lines 163-169: the three values the call sows into "intermediates".
Metrics(out) ==
  <<Sow("intermediates", "activation_mean", Mean(out)),
    Sow("intermediates", "activation_stdev", Std(out)),
    Sow("intermediates", "activation_fraction_zero", FractionZero(out))>>

\* Mutant of ReturnValue: scan_layers is ignored.
ReturnValueNeverPair(c, out) == <<out>>

\* lines 171-174: (layer_output, None) under scan_layers, else layer_output;
\* the returned value is kept as the tuple of its components.
ReturnValue(c, out) == IF c.scan_layers THEN <<out, None>> ELSE <<out>>

\* lines 57-58
ConstrainInputs ==
  /\ pc = "constrain_inputs"
  /\ inputs' = WithLogicalConstraint(inputs, ActivationAxes)
  /\ pc' = NextPc(pc)
  /\ UNCHANGED <<cfg, dense_layer, lnx, attention_lnx, intermediate_inputs,
                 hidden_states, mlp_lnx, mlp_shared_lnx, mlp_routed_lnx,
                 layer_output, intermediate_dim, events, intermediates, ret>>

\* lines 59-66: lnx = RMSNorm(name="pre_self_attention_layer_norm")(inputs)
PreNorm ==
  /\ pc = "pre_norm"
  /\ \E r \in Tensor :
       /\ lnx' = Raw(r)
       /\ events' = Append(events, Event("pre_self_attention_layer_norm", <<inputs>>, Raw(r)))
  /\ pc' = NextPc(pc)
  /\ UNCHANGED <<cfg, dense_layer, inputs, attention_lnx,
                 intermediate_inputs, hidden_states, mlp_lnx, mlp_shared_lnx,
                 mlp_routed_lnx, layer_output, intermediate_dim,
                 intermediates, ret>>

\* line 68
ConstrainLnx ==
  /\ pc = "constrain_lnx"
  /\ lnx' = WithLogicalConstraint(lnx, ActivationAxes)
  /\ pc' = NextPc(pc)
  /\ UNCHANGED <<cfg, dense_layer, inputs, attention_lnx,
                 intermediate_inputs, hidden_states, mlp_lnx, mlp_shared_lnx,
                 mlp_routed_lnx, layer_output, intermediate_dim, events,
                 intermediates, ret>>

\* lines 71-97: attention_lnx = MLA(name="self_attention")(lnx, lnx, ...)
SelfAttention ==
  /\ pc = "attention"
  /\ \E r \in Tensor :
       /\ attention_lnx' = Raw(r)
       /\ events' = Append(events, Event("self_attention", AttentionArgs(lnx), Raw(r)))
  /\ pc' = NextPc(pc)
  /\ UNCHANGED <<cfg, dense_layer, inputs, lnx, intermediate_inputs,
                 hidden_states, mlp_lnx, mlp_shared_lnx, mlp_routed_lnx,
                 layer_output, intermediate_dim, intermediates, ret>>

\* lines 99-101
ConstrainAttention ==
  /\ pc = "constrain_attention"
  /\ attention_lnx' = WithLogicalConstraint(attention_lnx, ActivationAxes)
  /\ pc' = NextPc(pc)
  /\ UNCHANGED <<cfg, dense_layer, inputs, lnx, intermediate_inputs,
                 hidden_states, mlp_lnx, mlp_shared_lnx, mlp_routed_lnx,
                 layer_output, intermediate_dim, events, intermediates, ret>>

\* line 102
FirstResidual ==
  /\ pc = "residual_1"
  /\ intermediate_inputs' = Residual1(inputs, attention_lnx)
  /\ events' = Append(events, Event("add", <<inputs, attention_lnx>>, intermediate_inputs'))
  /\ pc' = NextPc(pc)
  /\ UNCHANGED <<cfg, dense_layer, inputs, lnx, attention_lnx, hidden_states,
                 mlp_lnx, mlp_shared_lnx, mlp_routed_lnx, layer_output,
                 intermediate_dim, intermediates, ret>>

\* lines 105-111: hidden_states = RMSNorm(name="post_self_attention_layer_norm")(intermediate_inputs)
PostNorm ==
  /\ pc = "post_norm"
  /\ \E r \in Tensor :
       /\ hidden_states' = Raw(r)
       /\ events' = Append(events, Event("post_self_attention_layer_norm", <<intermediate_inputs>>, Raw(r)))
  /\ pc' = NextPc(pc)
  /\ UNCHANGED <<cfg, dense_layer, inputs, lnx, attention_lnx,
                 intermediate_inputs, mlp_lnx, mlp_shared_lnx,
                 mlp_routed_lnx, layer_output, intermediate_dim,
                 intermediates, ret>>

\* lines 112-116: constrain hidden_states; NextPc takes the branch of line 116
ConstrainHidden ==
  /\ pc = "constrain_hidden"
  /\ hidden_states' = WithLogicalConstraint(hidden_states, ActivationAxes)
  /\ pc' = NextPc(pc)
  /\ UNCHANGED <<cfg, dense_layer, inputs, lnx, attention_lnx,
                 intermediate_inputs, mlp_lnx, mlp_shared_lnx,
                 mlp_routed_lnx, layer_output, intermediate_dim, events,
                 intermediates, ret>>

\* lines 117-126: mlp_lnx = MlpBlock(name="mlp")(hidden_states)
DenseMlp ==
  /\ pc = "dense_mlp"
  /\ intermediate_dim' = DenseIntermediateDim(cfg)
  /\ \E r \in Tensor :
       /\ mlp_lnx' = Raw(r)
       /\ events' = Append(events, Event("MlpBlock", <<hidden_states>>, Raw(r)))
  /\ pc' = NextPc(pc)
  /\ UNCHANGED <<cfg, dense_layer, inputs, lnx, attention_lnx,
                 intermediate_inputs, hidden_states, mlp_shared_lnx,
                 mlp_routed_lnx, layer_output, intermediates, ret>>

\* line 127
ConstrainDense ==
  /\ pc = "constrain_dense"
  /\ mlp_lnx' = WithLogicalConstraint(mlp_lnx, ActivationAxes)
  /\ pc' = NextPc(pc)
  /\ UNCHANGED <<cfg, dense_layer, inputs, lnx, attention_lnx,
                 intermediate_inputs, hidden_states, mlp_shared_lnx,
                 mlp_routed_lnx, layer_output, intermediate_dim, events,
                 intermediates, ret>>

\* lines 129-138: mlp_shared_lnx = MlpBlock(name="mlp")(hidden_states)
SharedMlp ==
  /\ pc = "shared_mlp"
  /\ intermediate_dim' = SharedIntermediateDim(cfg)
  /\ \E r \in Tensor :
       /\ mlp_shared_lnx' = Raw(r)
       /\ events' = Append(events, Event("MlpBlock", <<hidden_states>>, Raw(r)))
  /\ pc' = NextPc(pc)
  /\ UNCHANGED <<cfg, dense_layer, inputs, lnx, attention_lnx,
                 intermediate_inputs, hidden_states, mlp_lnx, mlp_routed_lnx,
                 layer_output, intermediates, ret>>

\* line 139
ConstrainShared ==
  /\ pc = "constrain_shared"
  /\ mlp_shared_lnx' = WithLogicalConstraint(mlp_shared_lnx, ActivationAxes)
  /\ pc' = NextPc(pc)
  /\ UNCHANGED <<cfg, dense_layer, inputs, lnx, attention_lnx,
                 intermediate_inputs, hidden_states, mlp_lnx, mlp_routed_lnx,
                 layer_output, intermediate_dim, events, intermediates, ret>>

\* lines 140-150: mlp_routed_lnx, _ = MoeBlock(...)(hidden_states)
RoutedMoe ==
  /\ pc = "moe"
  /\ \E r \in Tensor :
       /\ mlp_routed_lnx' = Raw(r)
       /\ events' = Append(events, Event("MoeBlock", <<hidden_states>>, Raw(r)))
  /\ pc' = NextPc(pc)
  /\ UNCHANGED <<cfg, dense_layer, inputs, lnx, attention_lnx,
                 intermediate_inputs, hidden_states, mlp_lnx, mlp_shared_lnx,
                 layer_output, intermediate_dim, intermediates, ret>>

\* Mutant of ConstrainRouted: the constraint of line 151 is missing.
ConstrainRoutedDropped ==
  /\ pc = "constrain_routed"
  /\ pc' = NextPc(pc)
  /\ UNCHANGED <<cfg, dense_layer, inputs, lnx, attention_lnx,
                 intermediate_inputs, hidden_states, mlp_lnx, mlp_shared_lnx,
                 mlp_routed_lnx, layer_output, intermediate_dim, events,
                 intermediates, ret>>

\* line 151
ConstrainRouted ==
  /\ pc = "constrain_routed"
  /\ mlp_routed_lnx' = WithLogicalConstraint(mlp_routed_lnx, ActivationAxes)
  /\ pc' = NextPc(pc)
  /\ UNCHANGED <<cfg, dense_layer, inputs, lnx, attention_lnx,
                 intermediate_inputs, hidden_states, mlp_lnx, mlp_shared_lnx,
                 layer_output, intermediate_dim, events, intermediates, ret>>

\* line 152
SumExperts ==
  /\ pc = "experts_sum"
  /\ mlp_lnx' = ExpertsSum(mlp_shared_lnx, mlp_routed_lnx)
  /\ events' = Append(events, Event("add", <<mlp_shared_lnx, mlp_routed_lnx>>, mlp_lnx'))
  /\ pc' = NextPc(pc)
  /\ UNCHANGED <<cfg, dense_layer, inputs, lnx, attention_lnx,
                 intermediate_inputs, hidden_states, mlp_shared_lnx,
                 mlp_routed_lnx, layer_output, intermediate_dim,
                 intermediates, ret>>

\* line 153
ConstrainSum ==
  /\ pc = "constrain_sum"
  /\ mlp_lnx' = WithLogicalConstraint(mlp_lnx, ActivationAxes)
  /\ pc' = NextPc(pc)
  /\ UNCHANGED <<cfg, dense_layer, inputs, lnx, attention_lnx,
                 intermediate_inputs, hidden_states, mlp_shared_lnx,
                 mlp_routed_lnx, layer_output, intermediate_dim, events,
                 intermediates, ret>>

\* line 155
SecondResidual ==
  /\ pc = "residual_2"
  /\ layer_output' = Residual2(mlp_lnx, intermediate_inputs)
  /\ events' = Append(events, Event("add", <<mlp_lnx, intermediate_inputs>>, layer_output'))
  /\ pc' = NextPc(pc)
  /\ UNCHANGED <<cfg, dense_layer, inputs, lnx, attention_lnx,
                 intermediate_inputs, hidden_states, mlp_lnx, mlp_shared_lnx,
                 mlp_routed_lnx, intermediate_dim, intermediates, ret>>

\* lines 157-160
ConstrainOutput ==
  /\ pc = "constrain_output"
  /\ layer_output' = WithLogicalConstraint(layer_output, ActivationAxes)
  /\ pc' = NextPc(pc)
  /\ UNCHANGED <<cfg, dense_layer, inputs, lnx, attention_lnx,
                 intermediate_inputs, hidden_states, mlp_lnx, mlp_shared_lnx,
                 mlp_routed_lnx, intermediate_dim, events, intermediates,
                 ret>>

\* lines 162-169: the three self.sow calls, when cfg.record_internal_nn_metrics
RecordMetrics ==
  /\ pc = "metrics"
  /\ cfg.record_internal_nn_metrics
  /\ intermediates' = intermediates \o Metrics(layer_output)
  /\ events' = Append(events, Event("sow", <<layer_output>>, layer_output))
  /\ pc' = NextPc(pc)
  /\ UNCHANGED <<cfg, dense_layer, inputs, lnx, attention_lnx,
                 intermediate_inputs, hidden_states, mlp_lnx, mlp_shared_lnx,
                 mlp_routed_lnx, layer_output, intermediate_dim, ret>>

\* line 162: cfg.record_internal_nn_metrics is false
SkipMetrics ==
  /\ pc = "metrics"
  /\ ~cfg.record_internal_nn_metrics
  /\ pc' = NextPc(pc)
  /\ UNCHANGED <<cfg, dense_layer, inputs, lnx, attention_lnx,
                 intermediate_inputs, hidden_states, mlp_lnx, mlp_shared_lnx,
                 mlp_routed_lnx, layer_output, intermediate_dim, events,
                 intermediates, ret>>

\* lines 171-174
Return ==
  /\ pc = "return"
  /\ ret' = ReturnValue(cfg, layer_output)
  /\ events' = Append(events, Event("return", <<layer_output>>, layer_output))
  /\ pc' = NextPc(pc)
  /\ UNCHANGED <<cfg, dense_layer, inputs, lnx, attention_lnx,
                 intermediate_inputs, hidden_states, mlp_lnx, mlp_shared_lnx,
                 mlp_routed_lnx, layer_output, intermediate_dim,
                 intermediates>>

Next ==
  \/ ConstrainInputs
  \/ PreNorm
  \/ ConstrainLnx
  \/ SelfAttention
  \/ ConstrainAttention
  \/ FirstResidual
  \/ PostNorm
  \/ ConstrainHidden
  \/ DenseMlp
  \/ ConstrainDense
  \/ SharedMlp
  \/ ConstrainShared
  \/ RoutedMoe
  \/ ConstrainRouted
  \/ SumExperts
  \/ ConstrainSum
  \/ SecondResidual
  \/ ConstrainOutput
  \/ RecordMetrics
  \/ SkipMetrics
  \/ Return

Spec == Init /\ [][Next]_vars

----------------------------------------------------------------------------
\* Reading the log.

\* The ops of the log, in the order they ran.
Ops == [i \in 1..Len(events) |-> events[i].op]

\* The indices of the entries that invoked op.
Invocations(op) == {i \in 1..Len(events) : events[i].op = op}

Logged(label) == \E i \in 1..Len(events) : events[i].at = label

\* The entry logged by the statement labelled label.
EventAt(label) == events[CHOOSE i \in 1..Len(events) : events[i].at = label]

IsPrefix(s, t) == Len(s) <= Len(t) /\ \A i \in 1..Len(s) : s[i] = t[i]

Constrained(x) == WithLogicalConstraint(x, ActivationAxes)

\* The statements after the feed-forward block is complete.
AfterFeedForward == {"residual_2", "constrain_output", "metrics", "return", "done"}

----------------------------------------------------------------------------
\* C1: when the call has returned, the returned layer output is
\* I + F(Norm_post(I)) with I = inputs + Attn(Norm_pre(inputs)): the
\* pre-attention norm was applied to inputs, attention to that norm's output,
\* the post-attention norm to I, the feed-forward block(s) to that norm's
\* output, and both additions take the un-normalized stream (inputs, then I);
\* F is the MlpBlock output on the dense branch and the sum of the shared
\* MlpBlock output and the MoeBlock output otherwise.
ResidualStructure ==
  pc = "done" =>
    LET pre  == EventAt("pre_norm")
        att  == EventAt("attention")
        post == EventAt("post_norm")
        I    == AddVal(inputs.val, att.out.val)
        F    == IF dense_layer
                THEN EventAt("dense_mlp").out.val
                ELSE AddVal(EventAt("shared_mlp").out.val, EventAt("moe").out.val)
    IN  /\ pre.args[1].val = inputs.val
        /\ att.args[1].val = pre.out.val
        /\ post.args[1].val = I
        /\ IF dense_layer
           THEN EventAt("dense_mlp").args[1].val = post.out.val
           ELSE /\ EventAt("shared_mlp").args[1].val = post.out.val
                /\ EventAt("moe").args[1].val = post.out.val
        /\ ret[1].val = AddVal(I, F)

\* C1 witness: a returned non-dense call in which each norm changed its input,
\* so that adding the normalized tensor would be a different sum.
ResidualStructureWitness ==
  /\ pc = "done"
  /\ ~dense_layer
  /\ lnx.val /= inputs.val
  /\ hidden_states.val /= intermediate_inputs.val

\* C2: the feed-forward block is dense or shared-plus-routed, never both and
\* never neither.  At most one MlpBlock and one MoeBlock are ever invoked; on
\* the dense branch MoeBlock is never invoked; once the feed-forward block is
\* complete exactly one MlpBlock was invoked, and on the non-dense branch also
\* exactly one MoeBlock, both on the constrained post-attention-norm output,
\* and mlp_lnx is the sum of the two outputs (on the dense branch, the
\* MlpBlock output).
FeedForwardExclusive ==
  LET nMlp == Cardinality(Invocations("MlpBlock"))
      nMoe == Cardinality(Invocations("MoeBlock"))
  IN  /\ nMlp <= 1
      /\ nMoe <= 1
      /\ dense_layer => nMoe = 0
      /\ pc \in AfterFeedForward =>
           LET hidden == Constrained(EventAt("post_norm").out)
           IN  /\ nMlp = 1
               /\ IF dense_layer
                  THEN /\ Logged("dense_mlp") /\ ~Logged("shared_mlp")
                       /\ EventAt("dense_mlp").args = <<hidden>>
                       /\ mlp_lnx.val = EventAt("dense_mlp").out.val
                  ELSE /\ Logged("shared_mlp") /\ ~Logged("dense_mlp")
                       /\ nMoe = 1
                       /\ EventAt("shared_mlp").args = <<hidden>>
                       /\ EventAt("moe").args = <<hidden>>
                       /\ mlp_lnx.val = AddVal(EventAt("shared_mlp").out.val,
                                               EventAt("moe").out.val)

\* C2 witness: a returned non-dense call whose shared and routed outputs differ.
FeedForwardExclusiveWitness ==
  /\ pc = "done"
  /\ ~dense_layer
  /\ Cardinality(Invocations("MoeBlock")) = 1
  /\ mlp_shared_lnx.val /= mlp_routed_lnx.val

\* The order of invocations of a complete call.
ExpectedOps(dense, record) ==
  <<"pre_self_attention_layer_norm", "self_attention", "add",
    "post_self_attention_layer_norm">>
  \o (IF dense THEN <<"MlpBlock">> ELSE <<"MlpBlock", "MoeBlock", "add">>)
  \o <<"add">>
  \o (IF record THEN <<"sow">> ELSE <<>>)
  \o <<"return">>

\* C3: the invocations always run in the one order pre-attention norm,
\* attention, first residual add, post-attention norm, feed-forward block(s),
\* second residual add, metric recording (if enabled), return, whatever
\* scan_layers is; the log is always a prefix of that order and the whole of
\* it when the call has returned.  Attention is given the constrained output
\* of the pre-attention norm, and the post-attention norm (hence the
\* feed-forward block) is given the sum formed by the first residual add.
FixedOrder ==
  /\ IsPrefix(Ops, ExpectedOps(dense_layer, cfg.record_internal_nn_metrics))
  /\ pc = "done" => Ops = ExpectedOps(dense_layer, cfg.record_internal_nn_metrics)
  /\ Logged("attention") =>
       EventAt("attention").args[1] = Constrained(EventAt("pre_norm").out)
  /\ Logged("post_norm") =>
       /\ Logged("residual_1")
       /\ EventAt("post_norm").args = <<EventAt("residual_1").out>>

\* C3 witness: a returned non-dense call with metric recording, all ten
\* invocations logged.
FixedOrderWitness ==
  /\ pc = "done"
  /\ ~dense_layer
  /\ cfg.record_internal_nn_metrics
  /\ Len(events) = 10

\* C4: nothing is sown before the metrics statement; after it the
\* "intermediates" collection holds activation_mean, activation_stdev and
\* activation_fraction_zero of the final layer_output, each once, exactly when
\* cfg.record_internal_nn_metrics is true, and is empty otherwise; the
\* returned layer output is the constrained result of the second residual add
\* either way.
MetricsOptional ==
  /\ pc \notin {"return", "done"} => intermediates = <<>>
  /\ pc \in {"return", "done"} =>
       intermediates =
         IF cfg.record_internal_nn_metrics
         THEN <<[collection |-> "intermediates", name |-> "activation_mean",
                 value |-> Mean(layer_output)],
                [collection |-> "intermediates", name |-> "activation_stdev",
                 value |-> Std(layer_output)],
                [collection |-> "intermediates", name |-> "activation_fraction_zero",
                 value |-> FractionZero(layer_output)]>>
         ELSE <<>>
  /\ pc = "done" => ret[1] = Constrained(EventAt("residual_2").out)

\* C4 witness: a returned call with recording on, whose layer_output has other
\* statistics than the feed-forward output.
MetricsOptionalWitness ==
  /\ pc = "done"
  /\ cfg.record_internal_nn_metrics
  /\ Len(intermediates) = 3
  /\ Mean(mlp_lnx) /= Mean(layer_output)

\* C5: the layer input, the output of every collaborator, the summed
\* shared+routed result and the final layer_output carry ActivationAxes
\* wherever they are an operand of an addition, an argument of a collaborator,
\* sown, or returned.  The only operand without a constraint is
\* intermediate_inputs (the first residual sum), which the claim does not
\* list: the argument of the post-attention norm and the second operand of
\* the second residual add.
ShardingConstraints ==
  /\ \A i \in 1..Len(events) :
       LET e == events[i]
       IN  \A j \in 1..Len(e.args) :
             IF e.at = "post_norm" \/ (e.at = "residual_2" /\ j = 2)
             THEN e.args[j] = intermediate_inputs
             ELSE e.args[j].axes = ActivationAxes
  /\ pc = "done" => ret[1].axes = ActivationAxes

\* C5 witness: a returned non-dense call: every constraint of both the shared
\* and the routed path has been passed.
ShardingConstraintsWitness ==
  /\ pc = "done"
  /\ ~dense_layer
  /\ ret[1].axes = ActivationAxes
  /\ EventAt("experts_sum").args = <<mlp_shared_lnx, mlp_routed_lnx>>

ReturnShape ==
  pc = "done" =>
    /\ ret = IF cfg.scan_layers THEN <<layer_output, None>> ELSE <<layer_output>>
    /\ ret[1] = Constrained(EventAt("residual_2").out)
    /\ \A b \in BOOLEAN :
         LET other == ReturnValue([cfg EXCEPT !.scan_layers = b], layer_output)
         IN  /\ other[1] = ret[1]
             /\ Len(other) = IF b THEN 2 ELSE 1

\* C7 witness: a returned call under scan_layers.
ReturnShapeWitness ==
  /\ pc = "done"
  /\ cfg.scan_layers
  /\ Len(ret) = 2

\* C8: the dense MlpBlock is built with intermediate_dim
\* mlp_dim * (num_experts_per_tok + num_shared_experts), the shared MlpBlock
\* with mlp_dim * num_shared_experts; the dense width minus the shared width is
\* mlp_dim * num_experts_per_tok, and the shared width is zero exactly when
\* mlp_dim or num_shared_experts is zero.
FeedForwardWidth ==
  /\ Logged("dense_mlp") =>
       intermediate_dim = cfg.mlp_dim * (cfg.num_experts_per_tok + cfg.num_shared_experts)
  /\ Logged("shared_mlp") =>
       intermediate_dim = cfg.mlp_dim * cfg.num_shared_experts
  /\ ~Logged("dense_mlp") /\ ~Logged("shared_mlp") => intermediate_dim = -1
  /\ DenseIntermediateDim(cfg) - SharedIntermediateDim(cfg)
       = cfg.mlp_dim * cfg.num_experts_per_tok
  /\ SharedIntermediateDim(cfg) = 0 <=> (cfg.mlp_dim = 0 \/ cfg.num_shared_experts = 0)

\* C8 witness: a returned dense call whose width exceeds the shared width.
FeedForwardWidthWitness ==
  /\ pc = "done"
  /\ dense_layer
  /\ cfg.num_shared_experts > 0
  /\ intermediate_dim > cfg.mlp_dim * cfg.num_shared_experts
====
